---- MODULE Spec2Model ----
(***************************************************************************)
(* A model of the CUDA API tracker (cuda_api_tracker.py) and of the        *)
(* catalog / changelog generator (cuda_api_changelog.py).                  *)
(*                                                                         *)
(* Strings that the code takes apart (version strings and version tokens)  *)
(* are looked up in Chars, which gives their characters; the code's        *)
(* startswith, split('.') and int() are computed on those characters.      *)
(* A version is written as in the source ("9.1"); None is the string       *)
(* "None".                                                                 *)
(***************************************************************************)
EXTENDS Integers, Sequences, FiniteSets, TLC

\* ------------------------------------------------------------------ bounds

\* How many entries of the program's version list the model keeps.
NumVersions == 4

\* How many group links an index page of the documentation holds at most.
MaxGroupLinks == 1

\* How many cache-file writes may fail in one run on a failing disk.
MaxWriteFaults == 1

\* How many get_api_list_for_version calls a sequence of direct calls holds.
MaxCalls == 3

\* ------------------------------------------------------- program constants

\* parser.group_links[:20]
GroupLinkLimit == 20

\* fetch_url(url, timeout=30, retries=3)
DefaultRetries == 3

None == "None"

\* The head of the program's CUDA_VERSIONS, oldest first.
AllVersions == <<"8.0", "9.0", "9.1", "9.2", "10.0", "10.1">>

CUDA_VERSIONS == SubSeq(AllVersions, 1, NumVersions)

ApiTypes == {"runtime", "driver"}

\* The symbol names the documentation pages of the model can hold, in the
\* order Python's sorted() gives them ("cuG" < "cudaF": 'G' < 'd').
SymbolOrder == <<"cuG", "cudaF">>

Symbols == {SymbolOrder[i] : i \in 1..Len(SymbolOrder)}

\* What a page of the documentation of an API type can hold: the runtime
\* pages any symbol, the driver pages the driver-prefixed one.
PageSymbols(api_type) == IF api_type = "runtime" THEN Symbols ELSE {"cuG"}

\* The version tokens a user passes as --since / --until.
Tokens == {"8.0", "9", "9.1", "9.2", "9.5", "10", "7", "8.5", "x", "", "1", "9.1.0"}

\* ----------------------------------------------------------------- strings

Chars(s) ==
    CASE s = "8.0"  -> <<"8", ".", "0">>
      [] s = "9.0"  -> <<"9", ".", "0">>
      [] s = "9.1"  -> <<"9", ".", "1">>
      [] s = "9.2"  -> <<"9", ".", "2">>
      [] s = "10.0" -> <<"1", "0", ".", "0">>
      [] s = "10.1" -> <<"1", "0", ".", "1">>
      [] s = "9"    -> <<"9">>
      [] s = "9.5"  -> <<"9", ".", "5">>
      [] s = "9.1.0" -> <<"9", ".", "1", ".", "0">>
      [] s = "10"   -> <<"1", "0">>
      [] s = "7"    -> <<"7">>
      [] s = "8.5"  -> <<"8", ".", "5">>
      [] s = "1"    -> <<"1">>
      [] s = "x"    -> <<"x">>
      [] s = ""     -> <<>>

Digits == <<"0", "1", "2", "3", "4", "5", "6", "7", "8", "9">>

IsDigit(c) == \E i \in 1..10 : Digits[i] = c

DigitVal(c) == (CHOOSE i \in 1..10 : Digits[i] = c) - 1

\* str.startswith
StartsWith(s, prefix) ==
    LET cs == Chars(s)
        ps == Chars(prefix)
    IN  /\ Len(ps) <= Len(cs)
        /\ \A i \in 1..Len(ps) : cs[i] = ps[i]

\* str.split('.') on the characters of a string
RECURSIVE SplitDots(_, _, _)
SplitDots(cs, i, cur) ==
    IF i > Len(cs) THEN <<cur>>
    ELSE IF cs[i] = "." THEN <<cur>> \o SplitDots(cs, i + 1, <<>>)
    ELSE SplitDots(cs, i + 1, Append(cur, cs[i]))

\* int(x) of a run of characters: -1 stands for ValueError.
RECURSIVE DigitsValue(_, _, _)
DigitsValue(cs, i, acc) ==
    IF i > Len(cs) THEN acc
    ELSE DigitsValue(cs, i + 1, acc * 10 + DigitVal(cs[i]))

ParseInt(cs) ==
    IF cs = <<>> \/ \E i \in 1..Len(cs) : ~IsDigit(cs[i]) THEN -1
    ELSE DigitsValue(cs, 1, 0)

\* [int(x) for x in s.split('.')]
Parts(s) ==
    LET ps == SplitDots(Chars(s), 1, <<>>)
    IN  [i \in 1..Len(ps) |-> ParseInt(ps[i])]

\* list.index (1-based here)
IndexOf(seq, x) == CHOOSE i \in 1..Len(seq) : seq[i] = x /\ \A j \in 1..(i - 1) : seq[j] # x

Contains(seq, x) == \E i \in 1..Len(seq) : seq[i] = x

ToSet(seq) == {seq[i] : i \in 1..Len(seq)}

Rank(v) == IndexOf(CUDA_VERSIONS, v)

\* sorted() of a set of symbols
SortedSymbols(S) == SelectSeq(SymbolOrder, LAMBDA s : s \in S)

\* sorted(present_in, key=lambda v: CUDA_VERSIONS.index(v))
RECURSIVE InsertByRank(_, _)
InsertByRank(sorted, v) ==
    IF sorted = <<>> THEN <<v>>
    ELSE IF Rank(v) < Rank(Head(sorted)) THEN <<v>> \o sorted
    ELSE <<Head(sorted)>> \o InsertByRank(Tail(sorted), v)

\* Mutant of SortByRank: the list is left in the order of the walk.
MutSortByRank(seq) == seq

RECURSIVE SortByRank(_)
SortByRank(seq) ==
    IF seq = <<>> THEN <<>>
    ELSE InsertByRank(SortByRank(SubSeq(seq, 1, Len(seq) - 1)), seq[Len(seq)])

\* list(reversed(CUDA_VERSIONS))
versions_reversed == [i \in 1..Len(CUDA_VERSIONS) |-> CUDA_VERSIONS[Len(CUDA_VERSIONS) + 1 - i]]

\* ---------------------------------------------------------- version resolver

ValueError == "ValueError"

\* The first version, in ascending order, among those of the set matching;
\* None if the set is empty.
FirstVersion(matching) ==
    IF matching = {} THEN None
    ELSE CHOOSE v \in matching : \A w \in matching : Rank(v) <= Rank(w)

\* The versions whose string starts with the token.
PrefixMatches(target) == {v \in ToSet(CUDA_VERSIONS) : StartsWith(v, target)}

\* Mutant of MajorMinorMatches: the minor is not compared.
MutMajorMinorMatches(target_parts) ==
    {v \in ToSet(CUDA_VERSIONS) : Parts(v)[1] = target_parts[1]}

\* The versions with the token's major and at least its minor.
MajorMinorMatches(target_parts) ==
    {v \in ToSet(CUDA_VERSIONS) :
       LET v_parts == Parts(v)
       IN  /\ v_parts[1] = target_parts[1]
           /\ (Len(target_parts) = 1 \/ v_parts[2] >= target_parts[2])}

\* find_closest_version: a version, None, or ValueError when int() raises.
find_closest_version(target) ==
    IF Contains(CUDA_VERSIONS, target) THEN target
    ELSE IF PrefixMatches(target) # {} THEN FirstVersion(PrefixMatches(target))
    ELSE LET target_parts == Parts(target)
         IN  IF \E k \in 1..Len(target_parts) : target_parts[k] = -1
             THEN ValueError
             ELSE FirstVersion(MajorMinorMatches(target_parts))

\* CUDA_VERSIONS[start_idx:end_idx], with the 0-based start_idx and the
\* exclusive end_idx of the code.
Slice(start_idx, end_idx) == SubSeq(CUDA_VERSIONS, start_idx + 1, end_idx)

\* get_version_range: kind is "ok" (a list is returned), "exit" (sys.exit(1))
\* or "raise" (the ValueError of find_closest_version propagates).
get_version_range(since, until) ==
    LET since_v == IF since = None THEN None ELSE find_closest_version(since)
        until_v == IF until = None \/ until = "" THEN None ELSE find_closest_version(until)
        start_idx == IF since = None THEN 0 ELSE Rank(since_v) - 1
        end_idx == IF until = None \/ until = "" THEN Len(CUDA_VERSIONS) ELSE Rank(until_v)
        failed(kind) == [kind |-> kind, start_idx |-> 0, end_idx |-> 0, versions |-> <<>>]
    IN  IF since # None /\ since_v = ValueError THEN failed("raise")
        ELSE IF since # None /\ since_v = None THEN failed("exit")
        ELSE IF until # None /\ until # "" /\ until_v = ValueError THEN failed("raise")
        ELSE IF until # None /\ until # "" /\ until_v = None THEN failed("exit")
        ELSE [kind |-> "ok", start_idx |-> start_idx, end_idx |-> end_idx,
              versions |-> Slice(start_idx, end_idx)]

\* ------------------------------------------------------------------- state

\* The processes that call get_api_list_for_version: the invocation and a
\* second invocation running at the same time.
Callers == {"main", "peer"}

VARIABLES
    pc,            \* the function the invocation is in, or how it ended
    cache,         \* CACHE_DIR: the file of each (version, api_type), if any
    disk,          \* "healthy", or "failing": writes of cache files may raise
    write_faults,  \* how many cache-file writes have failed
    call,          \* each caller's get_api_list_for_version call in progress
    returned,      \* every set get_api_list_for_version has returned, in order
    frame,         \* the running function's arguments and local variables
    result,        \* find_api_history's result
    catalog,       \* generate_api_catalog's catalog
    changelog      \* generate_changelog's changelog

vars == <<pc, cache, disk, write_faults, call, returned, frame, result, catalog, changelog>>

Keys == ToSet(CUDA_VERSIONS) \X ApiTypes

Min(a, b) == IF a < b THEN a ELSE b

NoFile == [kind |-> "absent", json |-> <<>>]

BadFile == [kind |-> "corrupt", json |-> <<>>]

\* Mutant of JsonFile: only the first symbol is written.
MutJsonFile(apis) ==
    [kind |-> "ok", json |-> SubSeq(SortedSymbols(apis), 1, Min(1, Cardinality(apis)))]

\* json.dump(sorted(apis), f)
JsonFile(apis) == [kind |-> "ok", json |-> SortedSymbols(apis)]

\* fetched: the call went to the documentation pages; write: "none" (no
\* cache write attempted), "ok" or "raised"; start: how many calls had
\* returned when this one began.
IdleCall == [stage |-> "idle", version |-> None, api_type |-> None, use_cache |-> FALSE,
             cand |-> 0, apis |-> {}, fetched |-> FALSE, write |-> "none", start |-> 0]

\* The entry of the history for a call that returns.
Return(c, apis, fetched, write) ==
    [version |-> c.version, api_type |-> c.api_type, apis |-> apis,
     fetched |-> fetched, write |-> write, start |-> c.start]

NoFrame == [fn |-> None]

\* ------------------------------------------------ get_api_list_for_version

\* fetch_url's outcomes seen from its caller: "" or the page's content, which
\* is what extract_apis_from_html and ModuleIndexParser find in it.
NoContent(api_type) == [ok |-> FALSE, apis |-> {}, group_links |-> 0]

\* The contents a response can have.
ContentPages(api_type) ==
    [ok : {TRUE}, apis : SUBSET PageSymbols(api_type), group_links : 0..MaxGroupLinks]

Pages(api_type) == {NoContent(api_type)} \cup ContentPages(api_type)

\* ------------------------------------------------------------------ fetch_url

\* The exceptions after which fetch_url returns "" at once.
FailFast == {"HTTPError", "URLError"}

\* The exceptions after which fetch_url tries again; "Exception" is any other
\* exception of the attempt.
Retried == {"IncompleteRead", "ConnectionResetError", "TimeoutError", "Exception"}

\* What one attempt (urlopen and read) ends in: a response or an exception.
Outcomes(api_type) ==
    [kind : {"ok"}, page : ContentPages(api_type)] \cup
    [kind : FailFast \cup Retried, page : {NoContent(api_type)}]

\* The links a page can hold: relative ones, absolute http(s) URLs, and
\* relative ones whose first characters are "http".
Links == {"relative", "absolute", "http_prefixed"}

\* group_url: a link that starts with 'http' is taken as it is, any other is
\* appended to the base path, which has a scheme.  The result is a URL with
\* a scheme or without one.
GroupUrl(link) == IF link = "http_prefixed" THEN "no_scheme" ELSE "with_scheme"

\* time.sleep(1 * (attempt + 1))
Backoff(attempt) == 1 * (attempt + 1)

\* The loop "for attempt in range(retries)" from the given attempt on.
RECURSIVE FetchAttempts(_, _, _, _, _)
FetchAttempts(api_type, outcomes, retries, attempt, sleeps) ==
    IF attempt >= retries
    THEN [raised |-> FALSE, page |-> NoContent(api_type), attempts |-> attempt,
          sleeps |-> sleeps]
    ELSE LET o == outcomes[attempt + 1]
             returns(page) == [raised |-> FALSE, page |-> page, attempts |-> attempt + 1,
                               sleeps |-> sleeps]
         IN  IF o.kind = "ok" THEN returns(o.page)
             ELSE IF o.kind \in FailFast THEN returns(NoContent(api_type))
             ELSE IF attempt < retries - 1
             THEN FetchAttempts(api_type, outcomes, retries, attempt + 1,
                                Append(sleeps, Backoff(attempt)))
             ELSE returns(NoContent(api_type))

\* fetch_url: Request(url), which raises ValueError for a URL without a
\* scheme, is built before the loop and outside its try.
fetch_url(url, api_type, outcomes, retries) ==
    IF url = "no_scheme"
    THEN [raised |-> TRUE, page |-> NoContent(api_type), attempts |-> 0, sleeps |-> <<>>]
    ELSE FetchAttempts(api_type, outcomes, retries, 0, <<>>)

\* One call of fetch_url, for the URL of a link, with the outcome each
\* attempt would have.
FetchUrlCall ==
    /\ pc = "idle"
    /\ \E link \in Links, api_type \in ApiTypes, retries \in 0..DefaultRetries :
         \E outcomes \in [1..retries -> Outcomes(api_type)] :
           LET r == fetch_url(GroupUrl(link), api_type, outcomes, retries)
           IN  /\ frame' = [fn |-> "fetch_url", link |-> link, api_type |-> api_type,
                            retries |-> retries, outcomes |-> outcomes,
                            raised |-> r.raised, page |-> r.page,
                            attempts |-> r.attempts, sleeps |-> r.sleeps]
               /\ pc' = IF r.raised THEN "raised" ELSE "done"
    /\ UNCHANGED <<cache, disk, write_faults, call, returned, result, catalog, changelog>>

\* urls_to_try: two archive URLs, and the main docs URL for the last version
NumCandidates(version) == IF version = CUDA_VERSIONS[Len(CUDA_VERSIONS)] THEN 3 ELSE 2

\* Mutant of Readable: no cache file is ever read.
MutReadable(entry) == FALSE

\* A cache file that open() and json.load() read without an exception.
Readable(entry) == entry.kind = "ok"

\* The call's start: the cache lookup, and the return of the cached set or
\* the first candidate URL.
Invoke(c, version, api_type, use_cache) ==
    LET entry == cache[<<version, api_type>>]
        hit == use_cache /\ Readable(entry)
    IN  /\ call' = [call EXCEPT ![c] =
                     [stage |-> IF hit THEN "returned" ELSE "fetch",
                      version |-> version, api_type |-> api_type,
                      use_cache |-> use_cache,
                      cand |-> IF hit THEN 0 ELSE 1,
                      apis |-> IF hit THEN ToSet(entry.json) ELSE {},
                      fetched |-> ~hit, write |-> "none", start |-> Len(returned)]]
        /\ returned' = IF hit
                       THEN Append(returned, [version |-> version, api_type |-> api_type,
                                              apis |-> ToSet(entry.json), fetched |-> FALSE,
                                              write |-> "none", start |-> Len(returned)])
                       ELSE returned

\* The union of the sets extracted from the group pages that had content.
GroupApis(groups) == UNION {groups[i].apis : i \in DOMAIN groups}

\* What the group pages of an index page can add, over the outcomes of
\* their fetches.
GroupUnions(html, api_type) ==
    {GroupApis(groups) :
       groups \in [1..Min(html.group_links, GroupLinkLimit) -> Pages(api_type)]}

\* One iteration of "for base_url in urls_to_try": the index page and its
\* group pages are fetched; or fetch_url raises for a group link without a
\* scheme, and the ValueError, which nothing catches, leaves the call (stage
\* "raised") and ends the invocation.
FetchCandidate(c) ==
    /\ call[c].stage = "fetch"
    /\ \/ \E html \in Pages(call[c].api_type) :
            \E group_apis \in GroupUnions(html, call[c].api_type) :
              LET apis == IF html.ok
                          THEN call[c].apis \cup html.apis \cup group_apis
                          ELSE call[c].apis
                  last == (html.ok /\ apis # {}) \/ call[c].cand = NumCandidates(call[c].version)
              IN  call' = [call EXCEPT ![c].apis = apis,
                                       ![c].cand = IF last THEN @ ELSE @ + 1,
                                       ![c].stage = IF last THEN "deprecated" ELSE "fetch"]
       \/ /\ \E html \in ContentPages(call[c].api_type), link \in Links :
               /\ html.group_links >= 1
               /\ fetch_url(GroupUrl(link), call[c].api_type, <<>>, 0).raised
          /\ call' = [call EXCEPT ![c].stage = "raised", ![c].cand = 0]
    /\ UNCHANGED <<pc, cache, disk, write_faults, returned, frame, result, catalog, changelog>>

\* What the write of the cache file leaves: the sorted JSON array, or, when
\* the write raises, the file as it was (open failed) or a truncated file.
WriteOutcomes(old, apis) ==
    {[file |-> JsonFile(apis), write |-> "ok"]} \cup
    (IF disk = "failing" /\ write_faults < MaxWriteFaults
     THEN {[file |-> old, write |-> "raised"], [file |-> BadFile, write |-> "raised"]}
     ELSE {})

\* Mutant of ShouldCache: the empty result is written too.
MutShouldCache(apis, use_cache) == use_cache

\* Whether the result is written to the cache.
ShouldCache(apis, use_cache) == apis # {} /\ use_cache

\* The deprecated-functions page, the cache write and the return.
FetchDeprecated(c) ==
    /\ call[c].stage = "deprecated"
    /\ \E deprecated_html \in Pages(call[c].api_type) :
         LET apis == call[c].apis \cup deprecated_html.apis
             key == <<call[c].version, call[c].api_type>>
         IN  IF ShouldCache(apis, call[c].use_cache)
             THEN \E w \in WriteOutcomes(cache[key], apis) :
                    /\ cache' = [cache EXCEPT ![key] = w.file]
                    /\ write_faults' = IF w.write = "ok"
                                       THEN write_faults ELSE write_faults + 1
                    /\ call' = [call EXCEPT ![c].apis = apis, ![c].stage = "returned",
                                             ![c].write = w.write]
                    /\ returned' = Append(returned, Return(call[c], apis, TRUE, w.write))
             ELSE /\ call' = [call EXCEPT ![c].apis = apis, ![c].stage = "returned"]
                  /\ returned' = Append(returned, Return(call[c], apis, TRUE, "none"))
                  /\ UNCHANGED <<cache, write_faults>>
    /\ UNCHANGED <<pc, disk, frame, result, catalog, changelog>>

\* A call of get_api_list_for_version by a process that has none in
\* progress, for one of the keys, with the default use_cache.
CallStart(c, keys) ==
    /\ pc = "idle"
    /\ call[c].stage \in {"idle", "returned"}
    /\ Len(returned) + Cardinality({d \in Callers : call[d].stage \in {"fetch", "deprecated"}})
         < MaxCalls
    /\ \E key \in keys : Invoke(c, key[1], key[2], TRUE)
    /\ UNCHANGED <<pc, cache, disk, write_faults, frame, result, catalog, changelog>>

\* --------------------------------------------------------- find_api_history

NoResult == [api_name |-> None, api_type |-> None, introduced |-> None, removed |-> None,
             present_in |-> <<>>, not_found_in |-> <<>>, versions_checked |-> 0]

\* The api_type main() passes: a 'cu' name that is not a 'cuda' name is
\* searched in the driver API whatever --api-type says.
MainApiTypes(api_name) == IF api_name = "cuG" THEN {"driver"} ELSE ApiTypes

\* Mutant of Record: a version without the API is not counted.
MutRecord(r, version, found) ==
    [r EXCEPT !.versions_checked = IF found THEN @ + 1 ELSE @,
              !.present_in = IF found THEN Append(@, version) ELSE @,
              !.not_found_in = IF found THEN @ ELSE Append(@, version)]

\* The bookkeeping of one examined version.
Record(r, version, found) ==
    [r EXCEPT !.versions_checked = @ + 1,
              !.present_in = IF found THEN Append(@, version) ELSE @,
              !.not_found_in = IF found THEN @ ELSE Append(@, version)]

\* Mutant of Continues: the break of the "introduced" loop is lost.
MutContinues(walk, found, full_scan) == walk # "older" \/ found

\* Whether the walk goes on to the next older version after this one:
\* "latest" is the check of the latest version, "introduced" the loop of the
\* branch where the latest version has the API, "removed" the outer and
\* "older" the inner loop of the branch where it has not.
Continues(walk, found, full_scan) ==
    CASE walk = "latest"     -> TRUE
      [] walk = "introduced" -> found \/ full_scan
      [] walk = "removed"    -> TRUE
      [] walk = "older"      -> found

NextWalk(walk, found, full_scan) ==
    CASE walk = "latest"     -> IF found THEN "introduced" ELSE "removed"
      [] walk = "introduced" -> "introduced"
      [] walk = "removed"    -> IF found /\ ~full_scan THEN "older" ELSE "removed"
      [] walk = "older"      -> "older"

\* Mutant of RemovedAfter: the last version with the API itself.
MutRemovedAfter(present_in) == present_in[Len(present_in)]

\* The version "removed" is set to, given the sorted present_in.
RemovedAfter(present_in) ==
    LET last_present_idx == Rank(present_in[Len(present_in)]) - 1
    IN  IF last_present_idx + 1 < Len(CUDA_VERSIONS)
        THEN CUDA_VERSIONS[last_present_idx + 2]
        ELSE None

\* What the search reports as introduced, given the sorted present_in.
Introduced(present_in) == present_in[1]

\* The code after the loops of either branch.
Finish(r, api_in_latest) ==
    LET present_in == SortByRank(r.present_in)
    IN  IF api_in_latest
        THEN [r EXCEPT !.present_in = present_in, !.introduced = Introduced(present_in)]
        ELSE IF present_in # <<>>
        THEN [r EXCEPT !.present_in = present_in, !.introduced = Introduced(present_in),
                       !.removed = RemovedAfter(present_in)]
        ELSE [r EXCEPT !.present_in = present_in]

\* main() and find_api_history: --no-cache is parsed into args.no_cache, which
\* is passed to nothing; every call is made with the default use_cache.
SearchStart ==
    /\ pc = "idle"
    /\ \E api_name \in Symbols, full_scan \in BOOLEAN, no_cache \in BOOLEAN :
         \E api_type \in MainApiTypes(api_name) :
           /\ pc' = "find_api_history"
           /\ frame' = [fn |-> "find_api_history", api_name |-> api_name,
                        api_type |-> api_type, full_scan |-> full_scan,
                        no_cache |-> no_cache,
                        walk |-> "latest", idx |-> 1, api_in_latest |-> FALSE]
           /\ result' = [NoResult EXCEPT !.api_name = api_name, !.api_type = api_type]
           /\ Invoke("main", versions_reversed[1], api_type, TRUE)
    /\ UNCHANGED <<cache, disk, write_faults, catalog, changelog>>

\* The code between the return of one get_api_list_for_version call and the
\* next call, or the end of find_api_history.
SearchStep ==
    /\ pc = "find_api_history"
    /\ call["main"].stage = "returned"
    /\ LET found == frame.api_name \in call["main"].apis
           r == Record(result, call["main"].version, found)
           api_in_latest == IF frame.walk = "latest" THEN found ELSE frame.api_in_latest
           more == /\ Continues(frame.walk, found, frame.full_scan)
                   /\ frame.idx < Len(versions_reversed)
       IN  IF more
           THEN /\ result' = r
                /\ frame' = [frame EXCEPT !.walk = NextWalk(@, found, frame.full_scan),
                                          !.idx = @ + 1,
                                          !.api_in_latest = api_in_latest]
                /\ Invoke("main", versions_reversed[frame.idx + 1], frame.api_type, TRUE)
                /\ pc' = pc
           ELSE /\ result' = Finish(r, api_in_latest)
                /\ frame' = [frame EXCEPT !.api_in_latest = api_in_latest]
                /\ call' = [call EXCEPT !["main"] = IdleCall]
                /\ returned' = returned
                /\ pc' = "done"
    /\ UNCHANGED <<cache, disk, write_faults, catalog, changelog>>

\* ------------------------------------------------------------ list_new_apis

CompareStart ==
    /\ pc = "idle"
    /\ \E version1 \in ToSet(CUDA_VERSIONS), version2 \in ToSet(CUDA_VERSIONS),
          api_type \in ApiTypes :
         /\ frame' = [fn |-> "list_new_apis", version1 |-> version1, version2 |-> version2,
                      api_type |-> api_type, step |-> 1, apis_v1 |-> {},
                      new_apis |-> {}, removed_apis |-> {}]
         /\ Invoke("main", version1, api_type, TRUE)
    /\ pc' = "list_new_apis"
    /\ UNCHANGED <<cache, disk, write_faults, result, catalog, changelog>>

CompareStep ==
    /\ pc = "list_new_apis"
    /\ call["main"].stage = "returned"
    /\ IF frame.step = 1
       THEN /\ frame' = [frame EXCEPT !.step = 2, !.apis_v1 = call["main"].apis]
            /\ Invoke("main", frame.version2, frame.api_type, TRUE)
            /\ pc' = pc
       ELSE /\ frame' = [frame EXCEPT !.new_apis = call["main"].apis \ frame.apis_v1,
                                      !.removed_apis = frame.apis_v1 \ call["main"].apis]
            /\ call' = [call EXCEPT !["main"] = IdleCall]
            /\ returned' = returned
            /\ pc' = "done"
    /\ UNCHANGED <<cache, disk, write_faults, result, catalog, changelog>>

\* ------------------------------------------------- catalog and changelog

\* main(): --api-type runtime | driver | both
ApiTypeLists == {<<"runtime">>, <<"driver">>, <<"runtime", "driver">>}

SinceUntil == Tokens \cup {None}

\* The frame of a run that ends before any version is fetched.
RangeFrame(fn, rng) ==
    [fn |-> fn, kind |-> rng.kind, start_idx |-> rng.start_idx, end_idx |-> rng.end_idx,
     versions |-> rng.versions]

\* The frame of generate_api_catalog / generate_changelog at its first fetch.
LoopFrame(fn, rng, api_types) ==
    [fn |-> fn, kind |-> rng.kind, start_idx |-> rng.start_idx, end_idx |-> rng.end_idx,
     versions |-> rng.versions, api_types |-> api_types, vi |-> 1, ti |-> 1, apis |-> {},
     version_apis |-> <<>>, has_prev |-> FALSE, prev_apis |-> {}, prev_version |-> None]

\* The scan of the range for one API: first_seen, removed and present_in
\* after the versions from i on.
RECURSIVE ScanVersions(_, _, _, _, _)
ScanVersions(api, versions, version_apis, i, st) ==
    IF i > Len(versions) THEN st
    ELSE LET version == versions[i]
             st2 == IF api \in version_apis[i]
                    THEN [st EXCEPT !.present_in = Append(@, version),
                                    !.first_seen = IF @ = None THEN version ELSE @]
                    ELSE [st EXCEPT !.removed = IF st.present_in # <<>> /\ @ = None
                                                THEN version ELSE @]
         IN  ScanVersions(api, versions, version_apis, i + 1, st2)

\* Mutant of Status: the first version of the range decides, not the last.
MutStatus(api, versions, version_apis, present_in) ==
    IF api \in version_apis[1] THEN "present"
    ELSE IF present_in # <<>> THEN "removed"
    ELSE "never_present"

\* The status of a catalog record.
Status(api, versions, version_apis, present_in) ==
    IF api \in version_apis[Len(versions)] THEN "present"
    ELSE IF present_in # <<>> THEN "removed"
    ELSE "never_present"

\* Mutant of CatalogIntroduced: the first version of the range is reported.
MutCatalogIntroduced(first_seen, versions) == first_seen

\* The "introduced" of a catalog record.
CatalogIntroduced(first_seen, versions) == IF first_seen # versions[1] THEN first_seen ELSE None

\* The catalog record of one API.
Lifecycle(api, versions, version_apis) ==
    LET st == ScanVersions(api, versions, version_apis, 1,
                           [first_seen |-> None, removed |-> None, present_in |-> <<>>])
    IN  [introduced |-> CatalogIntroduced(st.first_seen, versions),
         removed |-> st.removed,
         status |-> Status(api, versions, version_apis, st.present_in),
         present_in |-> st.present_in]

AllApis(version_apis) == UNION {version_apis[i] : i \in DOMAIN version_apis}

\* The catalog generate_api_catalog returns; version_apis[i] is the set of
\* versions[i].
BuildCatalog(versions, api_types, version_apis) ==
    LET all_apis == AllApis(version_apis)
        apis == [api \in all_apis |-> Lifecycle(api, versions, version_apis)]
    IN  [api_types |-> api_types,
         since |-> versions[1],
         until |-> versions[Len(versions)],
         total_apis |-> Cardinality(all_apis),
         apis |-> apis,
         summary |->
           [total |-> Cardinality(all_apis),
            present |-> Cardinality({a \in all_apis : apis[a].status = "present"}),
            removed |-> Cardinality({a \in all_apis : apis[a].status = "removed"}),
            introduced_in_range |-> Cardinality({a \in all_apis : apis[a].introduced # None}),
            already_present |-> Cardinality({a \in all_apis :
                                    apis[a].introduced = None /\ apis[a].present_in # <<>>})]]

NoCatalog == [api_types |-> <<>>, since |-> None, until |-> None, total_apis |-> 0,
              apis |-> <<>>,
              summary |-> [total |-> 0, present |-> 0, removed |-> 0,
                           introduced_in_range |-> 0, already_present |-> 0]]

CatalogStart ==
    /\ pc = "idle"
    /\ \E since \in SinceUntil, until \in SinceUntil, api_types \in ApiTypeLists :
         LET rng == get_version_range(since, until)
         IN  IF rng.kind = "ok" /\ rng.versions # <<>>
             THEN /\ pc' = "generate_api_catalog"
                  /\ frame' = LoopFrame("generate_api_catalog", rng, api_types)
                  /\ Invoke("main", rng.versions[1], api_types[1], TRUE)
             ELSE \* sys.exit(1), the ValueError, or the IndexError of versions[0]
                  /\ pc' = IF rng.kind = "exit" THEN "exit" ELSE "raised"
                  /\ frame' = RangeFrame("generate_api_catalog", rng)
                  /\ UNCHANGED <<call, returned>>
    /\ UNCHANGED <<cache, disk, write_faults, result, catalog, changelog>>

\* fetch_all_versions from the return of one call to the next call, and,
\* after the last one, the rest of generate_api_catalog.
CatalogStep ==
    /\ pc = "generate_api_catalog"
    /\ call["main"].stage = "returned"
    /\ LET apis == frame.apis \cup call["main"].apis
           version_apis == Append(frame.version_apis, apis)
       IN  IF frame.ti < Len(frame.api_types)
           THEN /\ frame' = [frame EXCEPT !.apis = apis, !.ti = @ + 1]
                /\ Invoke("main", frame.versions[frame.vi], frame.api_types[frame.ti + 1], TRUE)
                /\ UNCHANGED <<pc, catalog>>
           ELSE IF frame.vi < Len(frame.versions)
           THEN /\ frame' = [frame EXCEPT !.apis = {}, !.ti = 1, !.vi = @ + 1,
                                          !.version_apis = version_apis]
                /\ Invoke("main", frame.versions[frame.vi + 1], frame.api_types[1], TRUE)
                /\ UNCHANGED <<pc, catalog>>
           ELSE /\ frame' = [frame EXCEPT !.apis = apis, !.version_apis = version_apis]
                /\ catalog' = BuildCatalog(frame.versions, frame.api_types, version_apis)
                /\ call' = [call EXCEPT !["main"] = IdleCall]
                /\ returned' = returned
                /\ pc' = "done"
    /\ UNCHANGED <<cache, disk, write_faults, result, changelog>>

NoSummary == [total_added |-> 0, total_removed |-> 0, all_added |-> <<>>, all_removed |-> <<>>,
              net_new |-> <<>>, net_removed |-> <<>>]

NoChangelog == [api_types |-> <<>>, since |-> None, until |-> None, versions |-> <<>>,
                summary |-> NoSummary]

\* Mutant of VersionInfo: the two differences are taken the other way round.
MutVersionInfo(version, prev_version, apis, prev_apis) ==
    LET added == SortedSymbols(prev_apis \ apis)
        removed == SortedSymbols(apis \ prev_apis)
    IN  [version |-> version, previous |-> prev_version, total_apis |-> Cardinality(apis),
         added |-> added, removed |-> removed,
         added_count |-> Len(added), removed_count |-> Len(removed)]

\* The version_info of one consecutive pair.
VersionInfo(version, prev_version, apis, prev_apis) ==
    LET added == SortedSymbols(apis \ prev_apis)
        removed == SortedSymbols(prev_apis \ apis)
    IN  [version |-> version, previous |-> prev_version, total_apis |-> Cardinality(apis),
         added |-> added, removed |-> removed,
         added_count |-> Len(added), removed_count |-> Len(removed)]

\* Mutant of AddEntry: the two totals are not accumulated.
MutAddEntry(log, info) ==
    [log EXCEPT !.versions = Append(@, info),
                !.summary.all_added = @ \o info.added,
                !.summary.all_removed = @ \o info.removed]

\* The changelog after the version_info of one pair is appended.
AddEntry(log, info) ==
    [log EXCEPT !.versions = Append(@, info),
                !.summary.total_added = @ + Len(info.added),
                !.summary.total_removed = @ + Len(info.removed),
                !.summary.all_added = @ \o info.added,
                !.summary.all_removed = @ \o info.removed]

\* net_new, given the two accumulated lists
NetNew(all_added, all_removed) == SortedSymbols(ToSet(all_added) \ ToSet(all_removed))

\* net_removed, given the two accumulated lists
NetRemoved(all_added, all_removed) == SortedSymbols(ToSet(all_removed) \ ToSet(all_added))

\* The code after the loop of generate_changelog.
Summarize(log) ==
    LET all_added == SortedSymbols(ToSet(log.summary.all_added))
        all_removed == SortedSymbols(ToSet(log.summary.all_removed))
    IN  [log EXCEPT !.summary.all_added = all_added,
                    !.summary.all_removed = all_removed,
                    !.summary.net_new = NetNew(all_added, all_removed),
                    !.summary.net_removed = NetRemoved(all_added, all_removed)]

\* Mutant of EnoughVersions: a range of one version is accepted.
MutEnoughVersions(versions) == Len(versions) >= 1

\* The negation of "if len(versions) < 2", which ends in sys.exit(1).
EnoughVersions(versions) == ~(Len(versions) < 2)

ChangelogStart ==
    /\ pc = "idle"
    /\ \E since \in SinceUntil, until \in SinceUntil, api_types \in ApiTypeLists :
         LET rng == get_version_range(since, until)
         IN  IF rng.kind = "ok" /\ EnoughVersions(rng.versions)
             THEN /\ pc' = "generate_changelog"
                  /\ frame' = LoopFrame("generate_changelog", rng, api_types)
                  /\ changelog' = [NoChangelog EXCEPT !.api_types = api_types,
                                                      !.since = rng.versions[1],
                                                      !.until = rng.versions[Len(rng.versions)]]
                  /\ Invoke("main", rng.versions[1], api_types[1], TRUE)
             ELSE \* sys.exit(1) of either function, or the ValueError
                  /\ pc' = IF rng.kind = "raise" THEN "raised" ELSE "exit"
                  /\ frame' = RangeFrame("generate_changelog", rng)
                  /\ UNCHANGED <<call, returned, changelog>>
    /\ UNCHANGED <<cache, disk, write_faults, result, catalog>>

\* generate_changelog from the return of one call to the next call, and,
\* after the last one, the summary.
ChangelogStep ==
    /\ pc = "generate_changelog"
    /\ call["main"].stage = "returned"
    /\ LET apis == frame.apis \cup call["main"].apis
           version == frame.versions[frame.vi]
           log == IF frame.has_prev
                  THEN AddEntry(changelog,
                                VersionInfo(version, frame.prev_version, apis, frame.prev_apis))
                  ELSE changelog
       IN  IF frame.ti < Len(frame.api_types)
           THEN /\ frame' = [frame EXCEPT !.apis = apis, !.ti = @ + 1]
                /\ Invoke("main", version, frame.api_types[frame.ti + 1], TRUE)
                /\ UNCHANGED <<pc, changelog>>
           ELSE IF frame.vi < Len(frame.versions)
           THEN /\ frame' = [frame EXCEPT !.apis = {}, !.ti = 1, !.vi = @ + 1,
                                          !.version_apis = Append(@, apis),
                                          !.has_prev = TRUE, !.prev_apis = apis,
                                          !.prev_version = version]
                /\ changelog' = log
                /\ Invoke("main", frame.versions[frame.vi + 1], frame.api_types[1], TRUE)
                /\ pc' = pc
           ELSE /\ frame' = [frame EXCEPT !.apis = apis,
                                          !.version_apis = Append(@, apis),
                                          !.has_prev = TRUE, !.prev_apis = apis,
                                          !.prev_version = version]
                /\ changelog' = Summarize(log)
                /\ call' = [call EXCEPT !["main"] = IdleCall]
                /\ returned' = returned
                /\ pc' = "done"
    /\ UNCHANGED <<cache, disk, write_faults, result, catalog>>

\* -------------------------------------------------------- get_version_range

\* The calls of find_closest_version that get_version_range makes, in order,
\* each with its argument and what it returned (or ValueError).
Resolutions(since, until) ==
    LET since_v == find_closest_version(since)
        of_since == IF since = None THEN <<>> ELSE <<[token |-> since, value |-> since_v]>>
        of_until == IF until = None \/ until = "" THEN <<>>
                    ELSE <<[token |-> until, value |-> find_closest_version(until)]>>
    IN  IF since # None /\ since_v \in {None, ValueError} THEN of_since
        ELSE of_since \o of_until

\* One call of get_version_range, as generate_api_catalog and
\* generate_changelog make it, with the tokens of the command line.
ResolveRange ==
    /\ pc = "idle"
    /\ \E since \in SinceUntil, until \in SinceUntil :
         LET rng == get_version_range(since, until)
         IN  /\ frame' = [fn |-> "get_version_range", since |-> since, until |-> until,
                          kind |-> rng.kind, start_idx |-> rng.start_idx,
                          end_idx |-> rng.end_idx, versions |-> rng.versions,
                          resolved |-> Resolutions(since, until)]
             /\ pc' = CASE rng.kind = "ok" -> "done"
                        [] rng.kind = "exit" -> "exit"
                        [] rng.kind = "raise" -> "raised"
    /\ UNCHANGED <<cache, disk, write_faults, call, returned, result, catalog, changelog>>

\* ----------------------------------------------------------- specification

\* Before an invocation, with an empty cache directory.
Start ==
    /\ pc = "idle"
    /\ cache = [k \in Keys |-> NoFile]
    /\ write_faults = 0
    /\ call = [c \in Callers |-> IdleCall]
    /\ returned = <<>>
    /\ frame = NoFrame
    /\ result = NoResult
    /\ catalog = NoCatalog
    /\ changelog = NoChangelog

\* One invocation of either script, on a disk whose writes succeed.
Init == Start /\ disk = "healthy"

GetApiList ==
    \/ \E c \in Callers : FetchCandidate(c)
    \/ \E c \in Callers : FetchDeprecated(c)

Next ==
    \/ SearchStart
    \/ SearchStep
    \/ CompareStart
    \/ CompareStep
    \/ CatalogStart
    \/ CatalogStep
    \/ ChangelogStart
    \/ ChangelogStep
    \/ GetApiList

Spec == Init /\ [][Next]_vars

\* The two get_api_list_for_version calls of list_new_apis, on a disk whose
\* writes may fail.
InitCache == Start /\ disk \in {"healthy", "failing"}

NextCache ==
    \/ CompareStart
    \/ CompareStep
    \/ GetApiList

SpecCache == InitCache /\ [][NextCache]_vars

\* A sequence of get_api_list_for_version calls, one after the other, on a
\* disk whose writes may fail.
NextSeq ==
    \/ CallStart("main", Keys)
    \/ GetApiList

SpecSeq == InitCache /\ [][NextSeq]_vars

\* The key of the call a process has made last.
KeyOf(c) == {<<call[c].version, call[c].api_type>>} \cap Keys

\* Calls of get_api_list_for_version by two processes at the same time, the
\* second one asking for the key the first one asks for.
NextRace ==
    \/ CallStart("main", Keys)
    \/ CallStart("peer", KeyOf("main"))
    \/ GetApiList

SpecRace == Init /\ [][NextRace]_vars

\* One invocation of either script, or one call of fetch_url.
NextFetch ==
    \/ FetchUrlCall
    \/ Next

SpecFetch == Init /\ [][NextFetch]_vars

\* The resolution of the --since / --until tokens of one invocation.
NextResolve == ResolveRange

SpecResolve == Init /\ [][NextResolve]_vars

\* ------------------------------------------------------------------ claims

\* The invocation has run function fn to its end.
Done(fn) == pc = "done" /\ frame.fn = fn

\* The versions of the range in ascending rank order.
Ascending(versions) ==
    \A i, j \in 1..Len(versions) : i < j => Rank(versions[i]) < Rank(versions[j])

\* The set generate_api_catalog / generate_changelog holds for versions[i].
RangeSet(i) == frame.version_apis[i]

\* C1: every catalog record whose removed field is set names a symbol that is
\* absent from the set of every version from removed on, through the last
\* version of the range.
C1_RemovedNeverReappears ==
    Done("generate_api_catalog") =>
      \A api \in DOMAIN catalog.apis :
        catalog.apis[api].removed # None =>
          \A i \in 1..Len(frame.versions) :
            Rank(frame.versions[i]) >= Rank(catalog.apis[api].removed) => api \notin RangeSet(i)

\* C2: net_new is the set of the last version minus the set of the first, and
\* net_removed the set of the first minus the set of the last.
C2_NetIsEndMinusStart ==
    Done("generate_changelog") =>
      LET first == RangeSet(1)
          last == RangeSet(Len(frame.versions))
      IN  /\ ToSet(changelog.summary.net_new) = last \ first
          /\ ToSet(changelog.summary.net_removed) = first \ last

\* The file holds exactly the set apis.
Holds(file, apis) == file.kind = "ok" /\ ToSet(file.json) = apis

\* Caller c's call returns in this step, after fetching, with caching enabled.
ReturnsFetched(c) ==
    /\ call[c].stage = "deprecated"
    /\ call'[c].stage = "returned"
    /\ call'[c].use_cache

\* C3 as stated: whenever a call with caching enabled returns a set it
\* computed by fetching, the key's cache file holds exactly that set, the
\* empty set included (unless the write of the file raised).
C3_EveryFetchedSetIsCached ==
    [][\A c \in Callers :
         ReturnsFetched(c) /\ call'[c].write # "raised" =>
           Holds(cache'[<<call[c].version, call[c].api_type>>], call'[c].apis)]_vars

\* C3 as amended: a non-empty set computed by fetching is in the key's cache
\* file when the call returns, unless the write of the file raised; when the
\* computed set is empty no file is written and the cache is as it was.
C3_NonEmptyFetchedSetIsCached ==
    [][\A c \in Callers :
         ReturnsFetched(c) =>
           /\ (call'[c].apis # {} /\ call'[c].write # "raised" =>
                 Holds(cache'[<<call[c].version, call[c].api_type>>], call'[c].apis))
           /\ (call'[c].apis = {} => call'[c].write = "none" /\ cache' = cache)]_vars

\* A call has returned a two-symbol set it fetched, and the cache holds it.
C3_Witness ==
    \E c \in Callers :
      /\ call[c].stage = "returned" /\ call[c].fetched /\ call[c].use_cache
      /\ call[c].apis = Symbols
      /\ cache[<<call[c].version, call[c].api_type>>].json = SymbolOrder

\* C4: when both tokens resolve, get_version_range returns the inclusive
\* slice between the two resolved ranks, non-empty and in ascending order.
C4_RangeIsNonEmptySlice ==
    (frame.fn \in {"generate_api_catalog", "generate_changelog"} /\ frame.kind = "ok") =>
      /\ Len(frame.versions) >= 1
      /\ frame.versions[1] = CUDA_VERSIONS[frame.start_idx + 1]
      /\ frame.versions[Len(frame.versions)] = CUDA_VERSIONS[frame.end_idx]
      /\ Len(frame.versions) = frame.end_idx - frame.start_idx
      /\ Ascending(frame.versions)

\* The versions find_api_history has asked get_api_list_for_version for.
Examined == {returned[i].version : i \in 1..Len(returned)}

\* The set get_api_list_for_version returned for an examined version.
SetOf(v) == returned[CHOOSE i \in 1..Len(returned) : returned[i].version = v].apis

\* The version was examined and its set has the API searched for.
Has(v) == v \in Examined /\ frame.api_name \in SetOf(v)

Latest == CUDA_VERSIONS[Len(CUDA_VERSIONS)]

\* The newest version whose set has the API (when there is one).
NewestWith == CHOOSE v \in ToSet(CUDA_VERSIONS) :
                Has(v) /\ \A w \in ToSet(CUDA_VERSIONS) : Has(w) => Rank(w) <= Rank(v)

\* The oldest version whose set has the API (when there is one).
OldestWith == CHOOSE v \in ToSet(CUDA_VERSIONS) :
                Has(v) /\ \A w \in ToSet(CUDA_VERSIONS) : Has(w) => Rank(w) >= Rank(v)

\* v is the oldest version of the unbroken run of versions with the API that
\* ends at version top.
RunStart(v, top) ==
    /\ Rank(v) <= Rank(top)
    /\ \A i \in Rank(v)..Rank(top) : Has(CUDA_VERSIONS[i])
    /\ (Rank(v) = 1 \/ ~Has(CUDA_VERSIONS[Rank(v) - 1]))

\* The search ended, the latest version lacks the API and an older one has it.
RemovedCase ==
    /\ Done("find_api_history")
    /\ ~Has(Latest)
    /\ \E v \in ToSet(CUDA_VERSIONS) : Has(v)

\* removed is the version right after the newest version with the API, and
\* that version was examined and lacks the API.
RemovedIsNextAfterNewest ==
    /\ result.removed = CUDA_VERSIONS[Rank(NewestWith) + 1]
    /\ result.removed \in Examined
    /\ ~Has(result.removed)

\* C5 as stated: in the removed case, with full-scan on or off, removed is
\* the version right after the newest version with the API and introduced is
\* the oldest version of the unbroken run that ends at that newest version.
C5_IntroducedIsRunStart ==
    RemovedCase => RemovedIsNextAfterNewest /\ RunStart(result.introduced, NewestWith)

\* C5 as amended: removed as stated; introduced is the oldest version of the
\* unbroken run with full-scan off, and the oldest version with the API
\* anywhere in the list with full-scan on.
C5_IntroducedByMode ==
    RemovedCase =>
      /\ RemovedIsNextAfterNewest
      /\ (~frame.full_scan => RunStart(result.introduced, NewestWith))
      /\ (frame.full_scan => Examined = ToSet(CUDA_VERSIONS) /\ result.introduced = OldestWith)

\* A full scan of an API that is in 8.0 and 9.1 and in no other version.
C5_Witness ==
    /\ RemovedCase
    /\ frame.full_scan
    /\ result.present_in = <<"8.0", "9.1">>
    /\ result.removed = "9.2"
    /\ result.introduced = "8.0"

\* The versions asked for, in the order of the calls.
Requested == [i \in 1..Len(returned) |-> returned[i].version]

\* The search ended and the latest version has the API.
IntroducedCase == Done("find_api_history") /\ Has(Latest)

\* C6: when the latest version has the API, the versions are examined one at
\* a time from the latest down; with full-scan off the walk stops at the first
\* version without the API and introduced is the oldest version of the
\* unbroken run ending at the latest; with full-scan on every version is
\* examined and introduced is the oldest version with the API; removed is
\* unset; and when the version before the latest lacks the API and full-scan
\* is off, introduced is the latest version and 2 versions are examined.
C6_IntroducedWalk ==
    IntroducedCase =>
      /\ Requested = SubSeq(versions_reversed, 1, Len(returned))
      /\ result.versions_checked = Len(returned)
      /\ result.removed = None
      /\ (~frame.full_scan =>
            /\ RunStart(result.introduced, Latest)
            /\ \A v \in Examined : ~Has(v) => Rank(v) = Rank(result.introduced) - 1
            /\ (Rank(result.introduced) > 1 =>
                  CUDA_VERSIONS[Rank(result.introduced) - 1] \in Examined))
      /\ (frame.full_scan =>
            /\ Examined = ToSet(CUDA_VERSIONS)
            /\ result.introduced = OldestWith)
      /\ (~frame.full_scan /\ ~Has(CUDA_VERSIONS[Len(CUDA_VERSIONS) - 1]) =>
            /\ result.introduced = Latest
            /\ result.versions_checked = 2
            /\ Requested = SubSeq(versions_reversed, 1, 2))

\* Scenario D: the API is in the latest version only, full-scan is off.
C6_Witness ==
    /\ IntroducedCase
    /\ ~frame.full_scan
    /\ result.introduced = Latest
    /\ result.versions_checked = 2
    /\ result.not_found_in = <<CUDA_VERSIONS[Len(CUDA_VERSIONS) - 1]>>

\* C7: when every known version has the API, the result does not report the
\* oldest known version as the version of introduction.
C7_IntroducedUnknownAtHistoryStart ==
    (Done("find_api_history") /\ \A v \in ToSet(CUDA_VERSIONS) : Has(v)) =>
      result.introduced # CUDA_VERSIONS[1]

\* The catalog record of an API.
Rec(api) == catalog.apis[api]

\* The position in the range of the first version whose set has the API.
FirstSeenAt(api) ==
    CHOOSE i \in 1..Len(frame.versions) :
      api \in RangeSet(i) /\ \A j \in 1..(i - 1) : api \notin RangeSet(j)

\* The positions after the first appearance where the set lacks the API.
GoneAt(api) == {j \in (FirstSeenAt(api) + 1)..Len(frame.versions) : api \notin RangeSet(j)}

\* C8: in every catalog record, introduced is the first version of the range
\* whose set has the symbol, or unknown exactly when that version is the
\* first of the range; removed is the first version after the first
\* appearance whose set lacks the symbol, or unset when there is none.
C8_CatalogLifecycle ==
    Done("generate_api_catalog") =>
      \A api \in DOMAIN catalog.apis :
        /\ \E i \in 1..Len(frame.versions) : api \in RangeSet(i)
        /\ Rec(api).introduced =
             (IF FirstSeenAt(api) = 1 THEN None ELSE frame.versions[FirstSeenAt(api)])
        /\ Rec(api).removed =
             (IF GoneAt(api) = {} THEN None
              ELSE frame.versions[CHOOSE j \in GoneAt(api) : \A k \in GoneAt(api) : j <= k])

\* Scenario A on the range 8.0..9.1: cudaF in the first two versions, cuG in
\* the last two.
C8_Witness ==
    /\ Done("generate_api_catalog")
    /\ frame.versions = <<"8.0", "9.0", "9.1">>
    /\ frame.version_apis = <<{"cudaF"}, {"cudaF", "cuG"}, {"cuG"}>>
    /\ Rec("cudaF").introduced = None /\ Rec("cudaF").removed = "9.1"
    /\ Rec("cudaF").status = "removed"
    /\ Rec("cuG").introduced = "9.0" /\ Rec("cuG").removed = None
    /\ Rec("cuG").status = "present"

\* C9: every catalog record has status present or removed, present exactly
\* when the symbol is in the set of the last version of the range, and the
\* catalog has a record for exactly the symbols that are in some version's
\* set.
C9_CatalogStatus ==
    Done("generate_api_catalog") =>
      /\ DOMAIN catalog.apis = UNION {RangeSet(i) : i \in 1..Len(frame.versions)}
      /\ \A api \in DOMAIN catalog.apis :
           /\ Rec(api).status \in {"present", "removed"}
           /\ Rec(api).status = "present" <=> api \in RangeSet(Len(frame.versions))

\* A catalog over three versions or more with one symbol of each status, the
\* removed one being absent from the first version too.
C9_Witness ==
    /\ Done("generate_api_catalog")
    /\ Len(frame.versions) >= 3
    /\ DOMAIN catalog.apis = Symbols
    /\ Rec("cuG").status = "present"
    /\ Rec("cudaF").status = "removed"
    /\ "cudaF" \notin RangeSet(1)

\* C10: present_in, in every catalog record and in every find_api_history
\* result, is in ascending rank order without duplicates, within the version
\* list (of the range, of all known versions), and holds only versions whose
\* set has the symbol.
C10_PresentInOrdered ==
    /\ Done("generate_api_catalog") =>
         \A api \in DOMAIN catalog.apis :
           /\ Ascending(Rec(api).present_in)
           /\ \A k \in 1..Len(Rec(api).present_in) :
                \E i \in 1..Len(frame.versions) :
                  frame.versions[i] = Rec(api).present_in[k] /\ api \in RangeSet(i)
    /\ Done("find_api_history") =>
         /\ Ascending(result.present_in)
         /\ \A k \in 1..Len(result.present_in) : Has(result.present_in[k])

\* A search that found the API in three versions, and not in the latest.
C10_Witness ==
    /\ Done("find_api_history")
    /\ Len(result.present_in) = 3
    /\ result.not_found_in # <<>>

\* The union of the sets get_api_list_for_version returned for a version.
ReturnedUnion(v) ==
    UNION {returned[k].apis : k \in {j \in 1..Len(returned) : returned[j].version = v}}

\* The position of a symbol in the order of sorted().
SymbolRank(s) == CHOOSE i \in 1..Len(SymbolOrder) : SymbolOrder[i] = s

\* The sequence is sorted and has no duplicates.
StrictlySorted(seq) ==
    \A i, j \in 1..Len(seq) : i < j => SymbolRank(seq[i]) < SymbolRank(seq[j])

\* C11: a changelog over n >= 2 versions has n-1 entries in version order;
\* entry i goes from the i-th to the (i+1)-th version of the range, its added
\* is the set of the version minus the set of the previous one and its removed
\* the other difference, both sorted and duplicate-free, with the two counts
\* equal to their lengths; the set of a version is the union of the sets
\* returned for the requested API types.
C11_ChangelogEntries ==
    Done("generate_changelog") =>
      LET n == Len(frame.versions)
      IN  /\ n >= 2
          /\ Len(changelog.versions) = n - 1
          /\ \A i \in 1..n : RangeSet(i) = ReturnedUnion(frame.versions[i])
          /\ Len(returned) = n * Len(frame.api_types)
          /\ \A i \in 1..(n - 1) :
               LET e == changelog.versions[i]
               IN  /\ e.previous = frame.versions[i]
                   /\ e.version = frame.versions[i + 1]
                   /\ ToSet(e.added) = RangeSet(i + 1) \ RangeSet(i)
                   /\ ToSet(e.removed) = RangeSet(i) \ RangeSet(i + 1)
                   /\ StrictlySorted(e.added) /\ StrictlySorted(e.removed)
                   /\ e.added_count = Len(e.added)
                   /\ e.removed_count = Len(e.removed)

\* Scenario B on the range 8.0..9.1: cudaF in the first two versions, cuG in
\* the last two.
C11_Witness ==
    /\ Done("generate_changelog")
    /\ frame.versions = <<"8.0", "9.0", "9.1">>
    /\ frame.version_apis = <<{"cudaF"}, {"cudaF", "cuG"}, {"cuG"}>>
    /\ changelog.versions[1].added = <<"cuG">> /\ changelog.versions[1].removed = <<>>
    /\ changelog.versions[2].added = <<>> /\ changelog.versions[2].removed = <<"cudaF">>
    /\ changelog.summary.net_new = <<"cuG">>
    /\ changelog.summary.net_removed = <<"cudaF">>

\* C12: in every entry of a changelog added and removed share no symbol, and
\* total_added is at least the length of net_new and total_removed at least
\* the length of net_removed.
C12_NetAtMostGross ==
    Done("generate_changelog") =>
      /\ \A i \in 1..Len(changelog.versions) :
           ToSet(changelog.versions[i].added) \cap ToSet(changelog.versions[i].removed) = {}
      /\ changelog.summary.total_added >= Len(changelog.summary.net_new)
      /\ changelog.summary.total_removed >= Len(changelog.summary.net_removed)

\* A changelog with an addition that is removed again and one that stays.
C12_Witness ==
    /\ Done("generate_changelog")
    /\ changelog.summary.net_new # <<>>
    /\ changelog.summary.total_added > Len(changelog.summary.net_new)
    /\ changelog.summary.total_removed > Len(changelog.summary.net_removed)

\* A token that int() reads, part by part, as a dotted number.
DottedNumber(token) == \A k \in 1..Len(Parts(token)) : Parts(token)[k] >= 0

\* The version has the token's major, and at least its minor if it has one.
MajorMinorOf(v, token) ==
    /\ Parts(v)[1] = Parts(token)[1]
    /\ (Len(Parts(token)) >= 2 => Parts(v)[2] >= Parts(token)[2])

\* value is the first version, in ascending order, that satisfies the test
\* (given as the set of the versions that satisfy it), or None if none does.
IsFirstOf(value, satisfying) ==
    IF satisfying = {} THEN value = None
    ELSE /\ value \in satisfying
         /\ \A w \in satisfying : Rank(value) <= Rank(w)

\* C13: find_closest_version returns a token that is a known version as it
\* is; otherwise the first version, in ascending order, whose string starts
\* with the token; otherwise, for a token that reads as a dotted number, the
\* first version with the token's major and at least its minor (any minor for
\* a bare major), and no version when there is none; a returned version is in
\* the version list.
C13_ResolveRules ==
    frame.fn = "get_version_range" =>
      \A k \in 1..Len(frame.resolved) :
        LET token == frame.resolved[k].token
            value == frame.resolved[k].value
            known == ToSet(CUDA_VERSIONS)
            prefixed == {v \in known : StartsWith(v, token)}
        IN  /\ value \in known \cup {None, ValueError}
            /\ (token \in known => value = token)
            /\ (token \notin known /\ prefixed # {} => IsFirstOf(value, prefixed))
            /\ (token \notin known /\ prefixed = {} /\ DottedNumber(token) =>
                  IsFirstOf(value, {v \in known : MajorMinorOf(v, token)}))
            /\ (token = "9" => value = "9.0")
            /\ (token = "7" => value = None)

\* --since 9 resolves to 9.0 by the prefix rule and --until 9.1.0 to 9.1 by
\* the major / minor rule.
C13_Witness ==
    /\ frame.fn = "get_version_range"
    /\ frame.resolved = <<[token |-> "9", value |-> "9.0"], [token |-> "9.1.0", value |-> "9.1"]>>
    /\ frame.versions = <<"9.0", "9.1">>

\* Every cache file is absent.
CacheEmpty == \A k \in Keys : cache[k] = NoFile

\* C14: when a --since or --until token matches no known version, tokens
\* that are not dotted numbers included, the invocation ends with the error
\* exit of get_version_range and in no other way, before any set is fetched
\* and before any cache file is written.
C14_UnresolvedTokenExits ==
    (frame.fn \in {"generate_api_catalog", "generate_changelog"} /\ frame.kind # "ok") =>
      /\ pc = "exit"
      /\ returned = <<>>
      /\ CacheEmpty
      /\ \A c \in Callers : call[c] = IdleCall

\* C15: a changelog asked for over a range of fewer than 2 versions ends with
\* the error exit, produces no changelog, and ends before any set is fetched,
\* with the cache as it was.
C15_ShortRangeExits ==
    (frame.fn = "generate_changelog" /\ frame.kind = "ok" /\ Len(frame.versions) < 2) =>
      /\ pc = "exit"
      /\ changelog = NoChangelog
      /\ returned = <<>>
      /\ CacheEmpty
      /\ \A c \in Callers : call[c] = IdleCall

\* A changelog asked for over the one-version range 9.1..9.1.
C15_Witness ==
    /\ frame.fn = "generate_changelog"
    /\ frame.kind = "ok"
    /\ frame.versions = <<"9.1">>
    /\ pc = "exit"

\* The key of an entry of the history of calls.
KeyAt(i) == <<returned[i].version, returned[i].api_type>>

\* Calls i and j of the history are for the same key, i returning first.
SameKey(i, j) == i < j /\ KeyAt(i) = KeyAt(j)

\* Calls i and j are consecutive calls for their key.
Consecutive(i, j) ==
    SameKey(i, j) /\ \A k \in (i + 1)..(j - 1) : KeyAt(k) # KeyAt(i)

\* Call j began before call i returned: the two were in progress together.
Overlap(i, j) == SameKey(i, j) /\ returned[j].start < i

\* C16: when two calls for the same key are in progress together and both
\* miss the cache and fetch, whatever the outcomes of their page fetches, both
\* return the same set, and once both have returned the key's cache file
\* holds that set.
C16_RacingCallsAgree ==
    \A i, j \in 1..Len(returned) :
      (Overlap(i, j) /\ returned[i].fetched /\ returned[j].fetched) =>
        /\ returned[i].apis = returned[j].apis
        /\ (j = Len(returned) => Holds(cache[KeyAt(j)], returned[j].apis))

\* C17 as stated: every call for a key returns the set the first call for
\* the key returned, and only the first call for a key fetches pages.
C17_SameAsFirstCall ==
    \A i, j \in 1..Len(returned) :
      SameKey(i, j) => returned[j].apis = returned[i].apis /\ ~returned[j].fetched

\* The call left a readable cache file behind: it wrote one, or it read one.
LeftEntry(i) == returned[i].write = "ok" \/ ~returned[i].fetched

\* C17 as amended: the first call for a key fetches; a call that follows a
\* call for the same key that wrote its non-empty set, or read the cache,
\* returns the same set without fetching; a call that follows one whose set
\* was empty or whose write failed fetches again.
C17_SameAsFirstCachedCall ==
    /\ \A j \in 1..Len(returned) :
         (\A i \in 1..(j - 1) : KeyAt(i) # KeyAt(j)) => returned[j].fetched
    /\ \A i, j \in 1..Len(returned) :
         Consecutive(i, j) =>
           IF LeftEntry(i)
           THEN returned[j].apis = returned[i].apis /\ ~returned[j].fetched
           ELSE returned[j].fetched
    /\ \A i \in 1..Len(returned) :
         returned[i].write = "ok" => returned[i].fetched /\ returned[i].apis # {}

\* Three calls for one key: the first fetches nothing, the second fetches two
\* symbols and writes them, the third reads them from the cache.
C17_Witness ==
    /\ Len(returned) = 3
    /\ SameKey(1, 2) /\ SameKey(2, 3)
    /\ returned[1].fetched /\ returned[1].apis = {}
    /\ returned[2].fetched /\ returned[2].apis = Symbols /\ returned[2].write = "ok"
    /\ ~returned[3].fetched /\ returned[3].apis = Symbols

\* The last call before call j that wrote the cache file of call j's key.
LastWrite(j) ==
    CHOOSE i \in 1..(j - 1) :
      /\ KeyAt(i) = KeyAt(j) /\ returned[i].write = "ok"
      /\ \A k \in (i + 1)..(j - 1) : ~(KeyAt(k) = KeyAt(j) /\ returned[k].write = "ok")

\* C18: a cache file is a sorted duplicate-free array, and a call that reads
\* the cache returns the set that was written to the key's file last.
C18_CacheRoundTrip ==
    /\ \A key \in Keys : cache[key].kind = "ok" => StrictlySorted(cache[key].json)
    /\ \A j \in 1..Len(returned) :
         ~returned[j].fetched =>
           /\ \E i \in 1..(j - 1) : KeyAt(i) = KeyAt(j) /\ returned[i].write = "ok"
           /\ returned[j].apis = returned[LastWrite(j)].apis

\* A call wrote the two symbols as ["cuG", "cudaF"] and the next call for the
\* key read them back.
C18_Witness ==
    /\ Len(returned) = 2
    /\ SameKey(1, 2)
    /\ returned[1].write = "ok" /\ returned[1].apis = Symbols
    /\ cache[KeyAt(1)].json = SymbolOrder
    /\ ~returned[2].fetched /\ returned[2].apis = Symbols

\* C19: a search run with --no-cache does not read and does not write the
\* cache: every set is obtained by fetching and the cache files are those of
\* before the search (none).
C19_NoCacheLeavesCacheAlone ==
    (frame.fn = "find_api_history" /\ frame.no_cache) =>
      /\ \A i \in 1..Len(returned) : returned[i].fetched
      /\ CacheEmpty

\* C20: in every find_api_history result versions_checked is the number of
\* versions whose set was requested, no version is requested twice,
\* versions_checked is the length of present_in plus that of not_found_in and
\* at most the number of versions, the two lists share no version; and when
\* no version's set has the symbol the search examines every version and
\* ends with introduced and removed unset and present_in empty.
C20_VersionsChecked ==
    Done("find_api_history") =>
      /\ result.versions_checked = Len(returned)
      /\ \A i, j \in 1..Len(returned) : i # j => returned[i].version # returned[j].version
      /\ result.versions_checked = Len(result.present_in) + Len(result.not_found_in)
      /\ result.versions_checked <= Len(CUDA_VERSIONS)
      /\ ToSet(result.present_in) \cap ToSet(result.not_found_in) = {}
      /\ ToSet(result.present_in) \cup ToSet(result.not_found_in) = Examined
      /\ ((\A v \in Examined : ~Has(v)) =>
            /\ Examined = ToSet(CUDA_VERSIONS)
            /\ result.versions_checked = Len(CUDA_VERSIONS)
            /\ result.introduced = None /\ result.removed = None
            /\ result.present_in = <<>>)

\* A search, without full-scan, for a symbol that no version's set has.
C20_Witness ==
    /\ Done("find_api_history")
    /\ ~frame.full_scan
    /\ result.present_in = <<>>
    /\ result.not_found_in = versions_reversed
    /\ result.versions_checked = Len(CUDA_VERSIONS)

\* The kinds of the outcomes of the attempts fetch_url made.
Tried == [k \in 1..frame.attempts |-> frame.outcomes[k].kind]

\* C21: fetch_url never raises to its caller: it makes at most retries
\* attempts, the delays between consecutive attempts are strictly increasing,
\* it returns the content of the first successful attempt and empty content
\* when the attempts are exhausted or an attempt fails for good; and no
\* get_api_list_for_version call, and so no catalog, changelog or search, is
\* ended by an exception of a fetch.
C21_FetchNeverRaises ==
    /\ frame.fn = "fetch_url" =>
         /\ ~frame.raised /\ pc = "done"
         /\ frame.attempts <= frame.retries
         /\ Len(frame.sleeps) = (IF frame.attempts = 0 THEN 0 ELSE frame.attempts - 1)
         /\ \A i, j \in 1..Len(frame.sleeps) : i < j => frame.sleeps[i] < frame.sleeps[j]
         /\ \A k \in 1..(frame.attempts - 1) : Tried[k] \in Retried
         /\ frame.page \in Pages(frame.api_type)
         /\ IF frame.attempts >= 1 /\ Tried[frame.attempts] = "ok"
            THEN frame.page = frame.outcomes[frame.attempts].page
            ELSE /\ frame.page = NoContent(frame.api_type)
                 /\ (frame.attempts = frame.retries
                       \/ Tried[frame.attempts] \in FailFast)
    /\ \A c \in Callers : call[c].stage # "raised"
    /\ (returned # <<>> => pc \notin {"raised", "exit"})

====
